---- MODULE Spec2Model ----
(***************************************************************************)
(* A model of the garmin-backend HTTP API: the metric readers over the     *)
(* SQLite data store (src/app.py), the two erase handlers (src/app.py      *)
(* clears tables, src/routes.py clears the data root), the config          *)
(* handlers and the blocking sync invoker with its update log              *)
(* (src/routes.py, src/app.py).                                            *)
(*                                                                         *)
(* Conventions.  A nullable SQL / JSON value is a tuple: <<>> is NULL,     *)
(* <<v>> is the value v; a duration text "HH:MM:SS" is <<h, m, s>>.  A     *)
(* day is an integer (ISO dates order the same way).  A table name is a    *)
(* tuple of one-character strings so that LIKE can be computed on it.      *)
(* A table is [cols, rows]; a row is a function from the table's columns.  *)
(***************************************************************************)
EXTENDS Integers, Sequences, FiniteSets, TLC

VARIABLES
    rootExists,     \* DATA_ROOT (~/HealthData) is a directory
    rootItems,      \* the entries directly under DATA_ROOT
    db,             \* the tables of DB_PATH (meaningful while the file exists)
    garthSession,   \* CFG_PATH.parent / "garth_session" exists
    cfg,            \* the persisted config document
    log,            \* the text of UPDATE_LOG
    syncPc,         \* position of the POST /api/update handler
    cp,             \* the CompletedProcess of the last sync tool run
    nSyncs,         \* how many times the sync tool has been launched
    resp            \* the last response (or reader result) produced

vars == <<rootExists, rootItems, db, garthSession, cfg, log, syncPc, cp, nSyncs, resp>>

(***************************************************************************)
(* Bounds of the model.                                                    *)
(***************************************************************************)
MaxDay == 3
MaxRows == 2
MaxLimit == 2
MaxSyncs == 2

Min(a, b) == IF a < b THEN a ELSE b

NULL == <<>>

(***************************************************************************)
(* Paths.                                                                  *)
(***************************************************************************)
DB_PATH == "~/HealthData/DBs/garmin.db"
DATA_ROOT == "~/HealthData"
UPDATE_LOG == "update.log"
DbDir == "DBs"

\* DB_PATH.exists(): the store lives in DATA_ROOT/DBs.
DbExists == rootExists /\ DbDir \in rootItems

NoDb == [t \in {} |-> [cols |-> {}, rows |-> <<>>]]

(***************************************************************************)
(* Table names and SQLite's LIKE.                                          *)
(***************************************************************************)
daily_summary == <<"d","a","i","l","y","_","s","u","m","m","a","r","y">>
sleep_summary == <<"s","l","e","e","p","_","s","u","m","m","a","r","y">>
sleep_table == <<"s","l","e","e","p">>
sqlite_sequence == <<"s","q","l","i","t","e","_","s","e","q","u","e","n","c","e">>
files_table == <<"f","i","l","e","s","-","o","l","d">>

\* the pattern of erase_data's table query: 'sqlite_%'
SqlitePattern == <<"s","q","l","i","t","e","_","%">>

UpperOf == [c \in {"s","q","l","i","t","e"} |->
              CASE c = "s" -> "S" [] c = "q" -> "Q" [] c = "l" -> "L"
                [] c = "i" -> "I" [] c = "t" -> "T" [] OTHER -> "E"]

\* LIKE compares ASCII letters without regard to case.
SameLetter(a, b) ==
    \/ a = b
    \/ a \in DOMAIN UpperOf /\ UpperOf[a] = b
    \/ b \in DOMAIN UpperOf /\ UpperOf[b] = a

\* s LIKE p: '%' matches any run of characters, '_' any one character.
RECURSIVE Like(_, _)
Like(s, p) ==
    IF p = <<>> THEN s = <<>>
    ELSE IF Head(p) = "%" THEN
        Like(s, Tail(p)) \/ (s # <<>> /\ Like(Tail(s), p))
    ELSE IF s = <<>> THEN FALSE
    ELSE IF Head(p) = "_" THEN Like(Tail(s), Tail(p))
    ELSE SameLetter(Head(s), Head(p)) /\ Like(Tail(s), Tail(p))

IdentChars == {"a","b","c","d","e","f","g","h","i","j","k","l","m","n","o",
               "p","q","r","s","t","u","v","w","x","y","z","_"}

\* f"DELETE FROM {table}" parses only when the name is a bare identifier.
IsBareIdentifier(name) == \A i \in 1..Len(name) : name[i] \in IdentChars

(***************************************************************************)
(* Schema Introspector (src/app.py).                                       *)
(***************************************************************************)
\* SELECT 1 FROM sqlite_master WHERE type='table' AND name=?
_table_exists(d, name) == name \in DOMAIN d

\* PRAGMA table_info(table): no rows, hence [], for an unknown table.
_get_columns(d, table) == IF table \in DOMAIN d THEN d[table].cols ELSE {}

_col_exists(d, table, col) == col \in _get_columns(d, table)

(***************************************************************************)
(* Query helpers: ORDER BY day DESC, LIMIT ?, WHERE ... IS NOT NULL.       *)
(***************************************************************************)
RemoveAt(s, i) == SubSeq(s, 1, i - 1) \o SubSeq(s, i + 1, Len(s))

\* a faulty variant: ORDER BY day ASC
OrderByDayAsc(rows) ==
    LET RECURSIVE Asc(_)
        Asc(rs) ==
            IF rs = <<>> THEN <<>>
            ELSE LET i == CHOOSE i \in 1..Len(rs) :
                            \A j \in 1..Len(rs) : rs[i]["day"] <= rs[j]["day"]
                 IN  <<rs[i]>> \o Asc(RemoveAt(rs, i))
    IN  Asc(rows)

\* ORDER BY day DESC: repeatedly take the row with the greatest day
\* (the first such row in rowid order).
OrderByDayDesc(rows) ==
    LET RECURSIVE Desc(_)
        Desc(rs) ==
            IF rs = <<>> THEN <<>>
            ELSE LET i == CHOOSE i \in 1..Len(rs) :
                            /\ \A j \in 1..Len(rs) : rs[j]["day"] <= rs[i]["day"]
                            /\ \A j \in 1..(i - 1) : rs[j]["day"] < rs[i]["day"]
                 IN  <<rs[i]>> \o Desc(RemoveAt(rs, i))
    IN  Desc(rows)

\* a faulty variant: the LIMIT clause left out
LimitNone(rows, n) == rows

\* LIMIT n: a negative n means no limit in SQLite.
Limit(rows, n) == IF n < 0 THEN rows ELSE SubSeq(rows, 1, Min(n, Len(rows)))

\* a faulty variant: the WHERE clause left out
SelectAll(rows, col) == rows

\* WHERE col IS NOT NULL, keeping the rows' order.
WhereNotNull(rows, col) ==
    LET RECURSIVE Keep(_)
        Keep(rs) ==
            IF rs = <<>> THEN <<>>
            ELSE IF Head(rs)[col] # NULL THEN <<Head(rs)>> \o Keep(Tail(rs))
            ELSE Keep(Tail(rs))
    IN  Keep(rows)

Raise(msg) == [ok |-> FALSE, records |-> <<>>, error |-> msg]
Return(records) == [ok |-> TRUE, records |-> records, error |-> <<>>]

\* the fixed window of fetch_daily_summary and the readers' default
DefaultLimit == 30

(***************************************************************************)
(* Time Normalizer: pd.to_timedelta(..., errors="coerce").total_seconds()  *)
(***************************************************************************)
_to_seconds(v) == IF Len(v) = 3 THEN <<v[1] * 3600 + v[2] * 60 + v[3]>> ELSE NULL

\* .fillna(0)
FillNa0(v) == IF v = NULL THEN 0 ELSE v[1]

(***************************************************************************)
(* Metric Readers (src/app.py).                                            *)
(***************************************************************************)
fetch_daily_summary(d) ==
    LET joined == /\ _table_exists(d, sleep_summary)
                  /\ _col_exists(d, sleep_summary, "sleep_seconds")
        dcols  == _get_columns(d, daily_summary)
    IN
    IF ~_table_exists(d, daily_summary)
    THEN Raise(<<"no such table: daily_summary">>)
    ELSE IF ~({"day", "steps", "rhr"} \subseteq dcols)
    THEN Raise(<<"no such column in daily_summary">>)
    ELSE IF joined /\ ~_col_exists(d, sleep_summary, "day")
    THEN Raise(<<"no such column: ss.day">>)
    ELSE
        LET rows == Limit(OrderByDayDesc(d[daily_summary].rows), DefaultLimit)
            ss   == IF joined THEN d[sleep_summary].rows ELSE <<>>
            \* LEFT JOIN sleep_summary ss ON ss.day = ds.day (day is the key
            \* of both tables: at most one match)
            SleepOf(day) ==
                IF \E k \in 1..Len(ss) : ss[k]["day"] = day
                THEN ss[CHOOSE k \in 1..Len(ss) : ss[k]["day"] = day]["sleep_seconds"]
                ELSE NULL
        IN  Return([i \in 1..Len(rows) |->
                     [date |-> rows[i]["day"],
                      steps |-> rows[i]["steps"],
                      restingHeartRate |-> rows[i]["rhr"],
                      sleepSeconds |-> SleepOf(rows[i]["day"])]])

SleepDurations == {"total_sleep", "deep_sleep", "light_sleep", "rem_sleep", "awake"}
SleepPlain == {"avg_spo2", "avg_rr", "avg_stress", "score", "qualifier"}
SleepCols == {"day"} \cup SleepDurations \cup SleepPlain

\* The record carries date, each duration with its derived seconds, and the
\* plain columns; the rounded hours fields are not modelled.
fetch_sleep(d, days) ==
    IF ~_table_exists(d, sleep_table)
    THEN Raise(<<"No 'sleep' table found. Expected columns: day, total_sleep, deep_sleep, light_sleep, rem_sleep, awake">>)
    ELSE IF ~(SleepCols \subseteq _get_columns(d, sleep_table))
    THEN Raise(<<"no such column in sleep">>)
    ELSE
        LET rows == Limit(OrderByDayDesc(d[sleep_table].rows), days)
        IN  Return([i \in 1..Len(rows) |->
                     [date |-> rows[i]["day"],
                      raw |-> [c \in SleepDurations \cup SleepPlain |-> rows[i][c]],
                      seconds |-> [c \in SleepDurations |-> _to_seconds(rows[i][c])]]])

fetch_steps(d, days) ==
    IF ~_table_exists(d, daily_summary)
    THEN Raise(<<"daily_summary table not found">>)
    ELSE
    LET cols == _get_columns(d, daily_summary) IN
    IF ~({"day", "steps"} \subseteq cols)
    THEN Raise(<<"Missing columns in daily_summary">>)
    ELSE
        LET rows == Limit(OrderByDayDesc(d[daily_summary].rows), days)
        IN  Return([i \in 1..Len(rows) |->
                     [date |-> rows[i]["day"],
                      steps |-> rows[i]["steps"],
                      step_goal |-> IF "step_goal" \in cols
                                    THEN rows[i]["step_goal"] ELSE NULL]])

fetch_stress(d, days) ==
    IF ~_table_exists(d, daily_summary)
    THEN Raise(<<"daily_summary table not found">>)
    ELSE
    LET cols == _get_columns(d, daily_summary) IN
    IF "stress_avg" \notin cols \/ "day" \notin cols
    THEN Raise(<<"daily_summary missing 'stress_avg' or 'day'">>)
    ELSE
        LET rows == Limit(OrderByDayDesc(
                        WhereNotNull(d[daily_summary].rows, "stress_avg")), days)
        IN  Return([i \in 1..Len(rows) |->
                     [date |-> rows[i]["day"],
                      stress_avg |-> rows[i]["stress_avg"]]])

ExerciseNeeded == {"day", "moderate_activity_time", "vigorous_activity_time",
                   "intensity_time_goal"}

fetch_exercise(d, days) ==
    IF ~_table_exists(d, daily_summary)
    THEN Raise(<<"daily_summary table not found">>)
    ELSE
    LET cols == _get_columns(d, daily_summary) IN
    IF ~(ExerciseNeeded \subseteq cols)
    THEN Raise(<<"daily_summary missing time columns">>)
    ELSE
        LET rows == Limit(OrderByDayDesc(d[daily_summary].rows), days)
            Opt(r, c) == IF c \in cols THEN r[c] ELSE NULL
            Rec(r) ==
                LET mod == _to_seconds(r["moderate_activity_time"])
                    vig == _to_seconds(r["vigorous_activity_time"])
                IN  [date |-> r["day"],
                     moderate_activity_time |-> r["moderate_activity_time"],
                     vigorous_activity_time |-> r["vigorous_activity_time"],
                     intensity_time_goal |-> r["intensity_time_goal"],
                     moderate_activity_seconds |-> mod,
                     vigorous_activity_seconds |-> vig,
                     intensity_time_goal_seconds |-> _to_seconds(r["intensity_time_goal"]),
                     total_activity_seconds |-> <<FillNa0(mod) + FillNa0(vig)>>,
                     distance |-> Opt(r, "distance"),
                     calories_active |-> Opt(r, "calories_active"),
                     calories_total |-> Opt(r, "calories_total")]
        IN  Return([i \in 1..Len(rows) |-> Rec(rows[i])])

(***************************************************************************)
(* Store contents the handlers are run against.                            *)
(***************************************************************************)
Days == 1..MaxDay
StressVals == {NULL, <<25>>}

DailyDurations == {"moderate_activity_time", "vigorous_activity_time",
                   "intensity_time_goal"}
DailyOptional == {"step_goal", "distance", "calories_active", "calories_total"}
DailyCols == {"day", "steps", "rhr", "stress_avg"} \cup DailyDurations \cup DailyOptional

\* older schema versions of daily_summary
OldColSets == {DailyCols \ {"stress_avg"}, DailyCols \ DailyOptional,
               {"day", "steps", "rhr"}, {"day", "stress_avg"}}

DailyRow(cols, day, stress) ==
    [c \in cols |->
        IF c = "day" THEN day
        ELSE IF c = "stress_avg" THEN stress
        ELSE IF c \in DailyDurations THEN <<0, 30, 0>>
        ELSE <<1>>]

\* day is the key of a table: the days of its rows are distinct
DaySeqs(n) == {s \in [1..n -> Days] : \A i, j \in 1..n : s[i] = s[j] => i = j}

\* the current schema with every row content
DailyTablesOfLen(n) ==
    {[cols |-> DailyCols,
      rows |-> [i \in 1..n |-> DailyRow(DailyCols, ds[i], st[i])]] :
        ds \in DaySeqs(n), st \in [1..n -> StressVals]}

\* an older schema with two days of rows, the newer one first or last
OldTables ==
    {[cols |-> cols,
      rows |-> <<DailyRow(cols, d, <<25>>), DailyRow(cols, 3 - d, NULL)>>] :
        cols \in OldColSets, d \in 1..2}

DailyTables == UNION {DailyTablesOfLen(n) : n \in 0..MaxRows} \cup OldTables

\* more days than the window: DefaultLimit + 2 rows, the oldest day without
\* a stress reading, in ascending rowid order
LongDaily ==
    [cols |-> DailyCols,
     rows |-> [i \in 1..(DefaultLimit + 2) |->
                 DailyRow(DailyCols, i, IF i = 1 THEN NULL ELSE <<25>>)]]

SleepRow(day, total) ==
    [c \in SleepCols |->
        IF c = "day" THEN day
        ELSE IF c = "total_sleep" THEN total
        ELSE IF c \in SleepDurations THEN <<1, 0, 0>>
        ELSE <<1>>]


SleepTables ==
    {[cols |-> SleepCols, rows |-> <<SleepRow(1, <<7, 30, 0>>), SleepRow(2, NULL)>>],
     [cols |-> SleepCols \ {"avg_spo2"}, rows |-> <<>>]}

SleepSummaryTables ==
    {[cols |-> {"day", "sleep_seconds"},
      rows |-> <<[c \in {"day", "sleep_seconds"} |-> IF c = "day" THEN 1 ELSE <<27000>>]>>],
     [cols |-> {"day"}, rows |-> <<[c \in {"day"} |-> 1]>>]}

OtherTable == [cols |-> {"seq"}, rows |-> <<[c \in {"seq"} |-> <<1>>]>>]

PlainDaily ==
    [cols |-> DailyCols,
     rows |-> <<DailyRow(DailyCols, 1, <<25>>), DailyRow(DailyCols, 2, NULL)>>]

\* a store with only daily_summary, in every modelled content
DailyStores == {[t \in {daily_summary} |-> dt] : dt \in DailyTables \cup {LongDaily}}

\* a store with daily_summary and any of the other tables
MixedStores ==
    {[t \in {daily_summary} \cup present |->
        IF t = daily_summary THEN PlainDaily
        ELSE IF t = sleep_table THEN sl
        ELSE IF t = sleep_summary THEN ss
        ELSE OtherTable] :
        present \in SUBSET {sleep_table, sleep_summary, sqlite_sequence, files_table},
        sl \in SleepTables, ss \in SleepSummaryTables}

\* a store without daily_summary
BareStores == {NoDb, [t \in {sleep_table} |-> CHOOSE sl \in SleepTables : sl.rows # <<>>]}

Stores == DailyStores \cup MixedStores \cup BareStores

RootEntries == {DbDir, "FitFiles"}

(***************************************************************************)
(* Responses.                                                              *)
(***************************************************************************)
StoreResp(route) ==
    [route |-> route, status |-> 0, kind |-> "none", error |-> <<>>,
     records |-> <<>>, connected |-> FALSE, confirm |-> "", days |-> 0,
     cleared |-> {}]

\* _json_error(msg, status) / jsonify({"error": msg}), status
_json_error(route, msg, status) ==
    [StoreResp(route) EXCEPT !.status = status, !.kind = "error", !.error = msg]

\* a faulty variant: the guard never answers
_require_db_off == <<>>

\* _require_db_exists(): the 503 response, or None (<<>>)
_require_db_exists ==
    IF ~DbExists
    THEN <<_json_error("guard", <<"Database not found at", DB_PATH>>, 503)>>
    ELSE <<>>

\* the shared shape of the five metric endpoints; r is the reader's outcome
MetricEndpoint(route, r) ==
    LET guard == _require_db_exists IN
    /\ resp' =
         IF guard # <<>> THEN [guard[1] EXCEPT !.route = route, !.days = DefaultLimit]
         ELSE IF ~r.ok
         THEN [_json_error(route, r.error, 500) EXCEPT !.connected = TRUE,
                                                       !.days = DefaultLimit]
         ELSE [StoreResp(route) EXCEPT !.status = 200, !.kind = "records",
                                      !.records = r.records, !.connected = TRUE,
                                      !.days = DefaultLimit]
    /\ UNCHANGED <<rootExists, rootItems, db, garthSession, cfg, log, syncPc, cp, nSyncs>>

daily_summary_endpoint == MetricEndpoint("daily-summary", fetch_daily_summary(db))
stress_endpoint == MetricEndpoint("stress", fetch_stress(db, DefaultLimit))
steps == MetricEndpoint("steps", fetch_steps(db, DefaultLimit))
exercise == MetricEndpoint("exercise", fetch_exercise(db, DefaultLimit))
sleep == MetricEndpoint("sleep", fetch_sleep(db, DefaultLimit))

Limits == 0..MaxLimit \cup {DefaultLimit}

\* a reader called with a row limit of the caller's choice
ReaderCall(route, r, days) ==
    /\ DbExists
    /\ resp' = IF r.ok
               THEN [StoreResp(route) EXCEPT !.kind = "records", !.records = r.records,
                                            !.connected = TRUE, !.days = days]
               ELSE [StoreResp(route) EXCEPT !.kind = "raised", !.error = r.error,
                                            !.connected = TRUE, !.days = days]
    /\ UNCHANGED <<rootExists, rootItems, db, garthSession, cfg, log, syncPc, cp, nSyncs>>

call_fetch_sleep == \E n \in Limits : ReaderCall("fetch_sleep", fetch_sleep(db, n), n)
call_fetch_steps == \E n \in Limits : ReaderCall("fetch_steps", fetch_steps(db, n), n)
call_fetch_stress == \E n \in Limits : ReaderCall("fetch_stress", fetch_stress(db, n), n)
call_fetch_exercise == \E n \in Limits : ReaderCall("fetch_exercise", fetch_exercise(db, n), n)

(***************************************************************************)
(* Erase Operation.                                                        *)
(***************************************************************************)
NoArg == "(no confirm argument)"
ConfirmArgs == {"true", "True", "", NoArg}

\* a faulty variant: any non-empty confirm value is accepted
ConfirmedLoose(arg) == arg \notin {NoArg, ""}

\* request.args.get("confirm") != "true", negated
Confirmed(arg) == arg = "true"

\* a faulty variant: the query without its NOT LIKE filter
ListAllTables(d) == DOMAIN d

\* SELECT name FROM sqlite_master WHERE type='table' AND name NOT LIKE 'sqlite_%'
ListTables(d) == {t \in DOMAIN d : ~Like(t, SqlitePattern)}

\* src/app.py erase_data: DELETE FROM every listed table, then commit.
\* locked: the store is locked by another connection.
app_erase_data(confirm, locked) ==
    /\ IF ~DbExists THEN
          /\ resp' = [_json_error("erase", <<"Database not found at", DB_PATH>>, 503)
                        EXCEPT !.confirm = confirm]
          /\ db' = db
       ELSE IF ~Confirmed(confirm) THEN
          /\ resp' = [_json_error("erase", <<"You must pass ?confirm=true to erase data">>, 400)
                        EXCEPT !.confirm = confirm]
          /\ db' = db
       ELSE LET tables == ListTables(db) IN
          IF locked /\ tables # {} THEN
             /\ resp' = [_json_error("erase", <<"database is locked">>, 500)
                           EXCEPT !.confirm = confirm, !.connected = TRUE]
             /\ db' = db
          ELSE IF \E t \in tables : ~IsBareIdentifier(t) THEN
             \* the statement does not parse; nothing was committed
             /\ resp' = [_json_error("erase", <<"syntax error">>, 500)
                           EXCEPT !.confirm = confirm, !.connected = TRUE]
             /\ db' = db
          ELSE
             /\ db' = [t \in DOMAIN db |->
                         IF t \in tables THEN [db[t] EXCEPT !.rows = <<>>] ELSE db[t]]
             /\ resp' = [StoreResp("erase") EXCEPT !.status = 200, !.kind = "erased",
                            !.cleared = tables, !.confirm = confirm, !.connected = TRUE]
    /\ UNCHANGED <<rootExists, rootItems, garthSession, cfg, log, syncPc, cp, nSyncs>>

\* src/routes.py erase_data: remove every entry under DATA_ROOT, then the
\* cached session.  kept: the entries left when a removal raises;
\* outcome: which step, if any, raises.
routes_erase_data(confirm, outcome, kept) ==
    /\ IF ~rootExists THEN
          /\ resp' = [_json_error("erase-files", <<"No HealthData folder found at", DATA_ROOT>>, 503)
                        EXCEPT !.confirm = confirm]
          /\ UNCHANGED <<rootItems, db, garthSession>>
       ELSE IF ~Confirmed(confirm) THEN
          /\ resp' = [_json_error("erase-files", <<"You must pass ?confirm=true to erase all data">>, 400)
                        EXCEPT !.confirm = confirm]
          /\ UNCHANGED <<rootItems, db, garthSession>>
       ELSE IF outcome = "rm_raises" /\ rootItems # {} THEN
          /\ rootItems' = kept
          /\ db' = IF DbDir \in kept THEN db ELSE NoDb
          /\ garthSession' = garthSession
          /\ resp' = [_json_error("erase-files", <<"OSError">>, 500) EXCEPT !.confirm = confirm]
       ELSE IF outcome = "unlink_raises" /\ garthSession THEN
          /\ rootItems' = {}
          /\ db' = NoDb
          /\ garthSession' = garthSession
          /\ resp' = [_json_error("erase-files", <<"OSError">>, 500) EXCEPT !.confirm = confirm]
       ELSE
          /\ rootItems' = {}
          /\ db' = NoDb
          /\ garthSession' = FALSE
          /\ resp' = [StoreResp("erase-files") EXCEPT !.status = 200,
                         !.kind = "erased_all_contents", !.confirm = confirm]
    /\ UNCHANGED <<rootExists, cfg, log, syncPc, cp, nSyncs>>

EraseTables == \E c \in ConfirmArgs, locked \in BOOLEAN : app_erase_data(c, locked)

EraseFiles ==
    \E c \in ConfirmArgs :
        \/ routes_erase_data(c, "ok", {})
        \/ routes_erase_data(c, "unlink_raises", {})
        \/ \E kept \in SUBSET rootItems : routes_erase_data(c, "rm_raises", kept)

(***************************************************************************)
(* The data store under the readers and the erase handlers.                *)
(***************************************************************************)
NoCfg == [s \in {} |-> [k \in {} |-> ""]]
NoCp == [returncode |-> 0, stdout |-> "", stderr |-> ""]

InitStore ==
    /\ rootExists \in BOOLEAN
    /\ rootItems \in SUBSET RootEntries
    /\ rootExists = FALSE => rootItems = {}
    /\ db \in Stores
    /\ ~DbExists => db = NoDb
    /\ garthSession \in BOOLEAN
    /\ cfg = NoCfg
    /\ log = ""
    /\ syncPc = "idle"
    /\ cp = NoCp
    /\ nSyncs = 0
    /\ resp = StoreResp("none")

NextStore ==
    \/ daily_summary_endpoint
    \/ stress_endpoint
    \/ steps
    \/ exercise
    \/ sleep
    \/ call_fetch_sleep
    \/ call_fetch_steps
    \/ call_fetch_stress
    \/ call_fetch_exercise
    \/ EraseTables
    \/ EraseFiles

SpecStore == InitStore /\ [][NextStore]_vars

(***************************************************************************)
(* The config document and its handlers (src/routes.py).  A document is a  *)
(* function from section names to functions from keys to values.           *)
(***************************************************************************)
DEFAULT_CFG ==
    [credentials |-> [user |-> "", secure_password |-> "false", password |-> "",
                      password_file |-> ""],
     data |-> [weight_start_date |-> "2020-01-01", sleep_start_date |-> "2020-01-01",
               rhr_start_date |-> "2020-01-01", monitoring_start_date |-> "2020-01-01",
               download_latest_activities |-> "25", download_all_activities |-> "1000"],
     garmin |-> [domain |-> "garmin.com"],
     directories |-> [relative_to_home |-> "true"]]

\* a config with a stored password
StoredPasswordCfg ==
    [DEFAULT_CFG EXCEPT !["credentials"]["user"] = "me",
                        !["credentials"]["password"] = "hunter2"]

\* a config whose password is kept in a file: no password key
PasswordFileCfg ==
    [credentials |-> [user |-> "me", password_file |-> "pw.txt"],
     garmin |-> [domain |-> "garmin.com"]]

\* a config without the credentials, data and garmin sections
SparseCfg == [directories |-> [relative_to_home |-> "true"]]

InitCfgs == {DEFAULT_CFG, StoredPasswordCfg, PasswordFileCfg, SparseCfg}

read_cfg == cfg

write_cfg(c) == c

CredentialKeys == {"user", "password", "secure_password", "password_file"}
DataKeys == {"weight_start_date", "sleep_start_date", "rhr_start_date",
             "monitoring_start_date", "download_latest_activities",
             "download_all_activities"}
GarminKeys == {"domain"}

\* cfg.setdefault(section, {})
SetDefault(c, section) ==
    IF section \in DOMAIN c THEN c
    ELSE [s \in DOMAIN c \cup {section} |->
            IF s = section THEN [k \in {} |-> ""] ELSE c[s]]

\* cfg[section][k] = payload[section][k] for each k of keys in payload[section]
CopyKeys(c, payload, section, keys) ==
    LET src  == payload[section]
        dst  == c[section]
        take == keys \cap DOMAIN src
    IN  [c EXCEPT ![section] =
            [k \in DOMAIN dst \cup take |-> IF k \in take THEN src[k] ELSE dst[k]]]

\* a faulty variant: every key of every payload section is copied
MergeEverything(c, payload) ==
    LET Step(cc, section) ==
            IF section \in DOMAIN payload
            THEN CopyKeys(SetDefault(cc, section), payload, section, DOMAIN payload[section])
            ELSE cc
    IN  Step(Step(Step(Step(c, "credentials"), "data"), "garmin"), "directories")

\* the body of update_config after read_cfg(): the three recognized sections
MergeConfig(c, payload) ==
    LET c1 == IF "credentials" \in DOMAIN payload
              THEN CopyKeys(SetDefault(c, "credentials"), payload, "credentials",
                            CredentialKeys)
              ELSE c
        c2 == IF "data" \in DOMAIN payload
              THEN CopyKeys(SetDefault(c1, "data"), payload, "data", DataKeys)
              ELSE c1
        c3 == IF "garmin" \in DOMAIN payload /\ "domain" \in DOMAIN payload["garmin"]
              THEN CopyKeys(SetDefault(c2, "garmin"), payload, "garmin", GarminKeys)
              ELSE c2
    IN  c3

\* a faulty variant: the document is returned as stored
RedactNothing(c) == c

\* get_config: blank credentials.password when the document has one
Redact(c) ==
    IF "credentials" \in DOMAIN c /\ "password" \in DOMAIN c["credentials"]
    THEN [c EXCEPT !["credentials"]["password"] = ""]
    ELSE c

\* the partial documents posted: each section absent or one of its parts
CredentialParts == {[k \in {} |-> ""],
                    [password |-> "s3cret"],
                    [user |-> "me", token |-> "t0ken"]}
DataParts == {[sleep_start_date |-> "2024-01-01", bogus |-> "1"]}
GarminParts == {[domain |-> "garmin.cn"], [region |-> "cn"]}
OtherParts == {[relative_to_home |-> "false"]}

Payloads ==
    {[s \in present |->
        IF s = "credentials" THEN cr
        ELSE IF s = "data" THEN da
        ELSE IF s = "garmin" THEN ga
        ELSE ot] :
        present \in SUBSET {"credentials", "data", "garmin", "directories"},
        cr \in CredentialParts, da \in DataParts, ga \in GarminParts, ot \in OtherParts}

ConfigResp(route) ==
    [route |-> route, status |-> 0, kind |-> "none", error |-> <<>>,
     body |-> NoCfg, payload |-> NoCfg, hadSession |-> FALSE]

get_config ==
    /\ resp' = [ConfigResp("get_config") EXCEPT !.status = 200, !.kind = "config",
                                               !.body = Redact(read_cfg)]
    /\ UNCHANGED <<rootExists, rootItems, db, garthSession, cfg, log, syncPc, cp, nSyncs>>

\* update_config; unlinkRaises: removing the cached session raises
update_config(payload, unlinkRaises) ==
    /\ IF garthSession /\ unlinkRaises THEN
          /\ resp' = [ConfigResp("post_config") EXCEPT !.status = 500, !.kind = "error",
                         !.error = <<"OSError">>, !.payload = payload,
                         !.hadSession = garthSession]
          /\ UNCHANGED <<garthSession, cfg>>
       ELSE
          /\ garthSession' = FALSE
          /\ cfg' = write_cfg(MergeConfig(read_cfg, payload))
          /\ resp' = [ConfigResp("post_config") EXCEPT !.status = 200, !.kind = "ok",
                         !.payload = payload, !.hadSession = garthSession]
    /\ UNCHANGED <<rootExists, rootItems, db, log, syncPc, cp, nSyncs>>

PostConfig == \E payload \in Payloads, unlinkRaises \in BOOLEAN :
                  update_config(payload, unlinkRaises)

InitConfig ==
    /\ rootExists = TRUE
    /\ rootItems = {}
    /\ db = NoDb
    /\ garthSession \in BOOLEAN
    /\ cfg \in InitCfgs
    /\ log = ""
    /\ syncPc = "idle"
    /\ cp = NoCp
    /\ nSyncs = 0
    /\ resp = ConfigResp("none")

NextConfig ==
    \/ get_config
    \/ PostConfig

SpecConfig == InitConfig /\ [][NextConfig]_vars

(***************************************************************************)
(* Sync Invoker and POST /api/update (src/routes.py, src/app.py).  The     *)
(* handler blocks in subprocess.run: it is at "idle" between requests,     *)
(* "running" while the sync tool runs and "exited" once the tool has       *)
(* exited and before the log is written.                                   *)
(***************************************************************************)
CLI == "garmindb_cli.py"

\* ' '.join(cmd)
CmdLine == CLI \o " -a -m -s --download --import --analyze -l"

\* what the sync tool may do: exit code (negative when killed by a signal),
\* captured stdout and stderr
ToolOutcomes ==
    {[returncode |-> 0, stdout |-> "synced\n", stderr |-> ""],
     [returncode |-> 1, stdout |-> "downloading\n", stderr |-> "no network"],
     [returncode |-> 7, stdout |-> "", stderr |-> "boom"],
     [returncode |-> -9, stdout |-> "", stderr |-> ""]}

Header == "\n$ " \o CmdLine \o "\n"

Footer(returncode) == "\nexit=" \o ToString(returncode) \o "\n"

\* a faulty variant: stderr written before stdout
WritesErrFirst(c) == Header \o c.stderr \o c.stdout \o Footer(c.returncode)

\* the four writes made under `with UPDATE_LOG.open("a")`
LogWrites(c) == Header \o c.stdout \o c.stderr \o Footer(c.returncode)

\* a faulty variant: any exit that is not a signal counts as ok
OkIfNotKilled(returncode) == returncode >= 0

\* "ok": (cp.returncode == 0)
OkOf(returncode) == returncode = 0

\* the SyncResult (its clock readings are not modelled)
SyncResult(c) ==
    [returncode |-> c.returncode, ok |-> OkOf(c.returncode), log |-> UPDATE_LOG,
     stdout |-> c.stdout, stderr |-> c.stderr]

NoResult == [returncode |-> 0, ok |-> FALSE, log |-> "", stdout |-> "", stderr |-> ""]

\* a faulty variant: the result is always served with 200
StatusAlways200(ok) == 200

\* 200 if result["ok"] else 500
StatusOf(ok) == IF ok THEN 200 ELSE 500

SyncResp(kind, status, result) ==
    [route |-> "update", status |-> status, kind |-> kind, result |-> result]

\* the payloads of a POST /api/update request
UpdatePayloads == {NoCfg, [credentials |-> [password |-> "s3cret"]]}

\* subprocess.run raises (the executable is missing or not executable):
\* the framework answers 500 and nothing is written
Launch(launchOk) ==
    IF launchOk
    THEN /\ syncPc' = "running"
         /\ nSyncs' = nSyncs + 1
         /\ resp' = SyncResp("pending", 0, NoResult)
    ELSE /\ syncPc' = "idle"
         /\ nSyncs' = nSyncs
         /\ resp' = SyncResp("exception", 500, NoResult)

\* src/routes.py update_garmin_data up to subprocess.run: update_config()
\* (its response is dropped), then the launch
routes_update_start(payload, unlinkRaises, launchOk) ==
    /\ syncPc = "idle"
    /\ nSyncs < MaxSyncs
    /\ IF garthSession /\ unlinkRaises
       THEN UNCHANGED <<garthSession, cfg>>
       ELSE /\ garthSession' = FALSE
            /\ cfg' = write_cfg(MergeConfig(read_cfg, payload))
    /\ Launch(launchOk)
    /\ UNCHANGED <<rootExists, rootItems, db, log, cp>>

\* src/app.py update_garmin_data up to subprocess.run
app_update_start(launchOk) ==
    /\ syncPc = "idle"
    /\ nSyncs < MaxSyncs
    /\ Launch(launchOk)
    /\ UNCHANGED <<rootExists, rootItems, db, garthSession, cfg, log, cp>>

\* subprocess.run returns: the tool has exited; it may have logged in and
\* cached a session
tool_exit(outcome, loggedIn) ==
    /\ syncPc = "running"
    /\ syncPc' = "exited"
    /\ cp' = outcome
    /\ garthSession' = (garthSession \/ loggedIn)
    /\ UNCHANGED <<rootExists, rootItems, db, cfg, log, nSyncs, resp>>

\* the rest of _run_garmindb / _run_update_sync and of update_garmin_data
update_finish ==
    /\ syncPc = "exited"
    /\ syncPc' = "idle"
    /\ log' = log \o LogWrites(cp)
    /\ resp' = SyncResp("result", StatusOf(SyncResult(cp).ok), SyncResult(cp))
    /\ UNCHANGED <<rootExists, rootItems, db, garthSession, cfg, cp, nSyncs>>

RoutesUpdate == \E payload \in UpdatePayloads, unlinkRaises, launchOk \in BOOLEAN :
                    routes_update_start(payload, unlinkRaises, launchOk)

AppUpdate == \E launchOk \in BOOLEAN : app_update_start(launchOk)

ToolExit == \E outcome \in ToolOutcomes, loggedIn \in BOOLEAN : tool_exit(outcome, loggedIn)

InitSync ==
    /\ rootExists = TRUE
    /\ rootItems = {}
    /\ db = NoDb
    /\ garthSession \in BOOLEAN
    /\ cfg = DEFAULT_CFG
    /\ log = ""
    /\ syncPc = "idle"
    /\ cp = NoCp
    /\ nSyncs = 0
    /\ resp = SyncResp("none", 0, NoResult)

NextSync ==
    \/ RoutesUpdate
    \/ AppUpdate
    \/ ToolExit
    \/ update_finish

SpecSync == InitSync /\ [][NextSync]_vars

(***************************************************************************)
(* Properties of the erase handlers.                                       *)
(***************************************************************************)
EraseRoutes == {"erase", "erase-files"}

StoreUnchanged == db' = db /\ rootItems' = rootItems /\ rootExists' = rootExists

\* C1 as stated: an erase request whose confirm parameter is not exactly
\* "true" answers 400 and leaves the store and the data root unchanged,
\* whatever the state of the store.
C1_UnconfirmedAlways400 ==
    [][(resp'.route \in EraseRoutes /\ resp'.confirm # "true")
          => (resp'.status = 400 /\ StoreUnchanged)]_vars

\* C1 amended: an erase request whose confirm parameter is not exactly
\* "true" leaves the store and the data root unchanged; it answers 400 when
\* the store (the data root, for the file-clearing variant) exists and 503
\* when it does not.
C1_UnconfirmedRejected ==
    [][(resp'.route \in EraseRoutes /\ resp'.confirm # "true")
          => /\ StoreUnchanged
             /\ resp'.route = "erase" =>
                   resp'.status = (IF DbExists THEN 400 ELSE 503)
             /\ resp'.route = "erase-files" =>
                   resp'.status = (IF rootExists THEN 400 ELSE 503)]_vars

\* an almost-confirmed erase was rejected over a store that holds rows
C1_Witness ==
    /\ resp.route = "erase"
    /\ resp.confirm = "True"
    /\ resp.status = 400
    /\ \E t \in DOMAIN db : db[t].rows # <<>>

\* C2 as stated: after a confirmed table-clearing erase that answers 200,
\* every table that existed before has zero rows and the set of tables is
\* the same.
C2_EveryTableEmptied ==
    [][(resp'.route = "erase" /\ resp'.status = 200)
          => /\ DOMAIN db' = DOMAIN db
             /\ \A t \in DOMAIN db : db'[t].rows = <<>>]_vars

\* C2 amended: after a confirmed table-clearing erase that answers 200, the
\* set of tables and every table's columns are the same, every table whose
\* name does not match LIKE 'sqlite_%' has zero rows, and every table whose
\* name matches it keeps its rows.
C2_ListedTablesEmptied ==
    [][(resp'.route = "erase" /\ resp'.status = 200)
          => /\ DOMAIN db' = DOMAIN db
             /\ \A t \in DOMAIN db :
                   /\ db'[t].cols = db[t].cols
                   /\ db'[t].rows = IF Like(t, SqlitePattern) THEN db[t].rows ELSE <<>>]_vars

\* an erase emptied daily_summary (never empty beside other tables before an
\* erase) and left the rows of sqlite_sequence
C2_Witness ==
    /\ resp.route = "erase"
    /\ resp.status = 200
    /\ daily_summary \in resp.cleared
    /\ sqlite_sequence \in DOMAIN db
    /\ db[sqlite_sequence].rows # <<>>
    /\ db[daily_summary].rows = <<>>

(***************************************************************************)
(* Properties of the metric endpoints and readers.                         *)
(***************************************************************************)
MetricRoutes == {"daily-summary", "sleep", "steps", "stress", "exercise"}

ReaderOf(route, d) ==
    CASE route = "daily-summary" -> fetch_daily_summary(d)
      [] route = "sleep" -> fetch_sleep(d, DefaultLimit)
      [] route = "steps" -> fetch_steps(d, DefaultLimit)
      [] route = "stress" -> fetch_stress(d, DefaultLimit)
      [] OTHER -> fetch_exercise(d, DefaultLimit)

StressRoutes == {"stress", "fetch_stress"}

StressRows == db[daily_summary].rows

NonNullCount == Cardinality({i \in 1..Len(StressRows) : StressRows[i]["stress_avg"] # NULL})

SomeNull == \E i \in 1..Len(StressRows) : StressRows[i]["stress_avg"] = NULL

NoNullRecord == \A i \in 1..Len(resp.records) : resp.records[i].stress_avg # NULL

\* C9 as stated, for the stress reader as its endpoint calls it: over daily
\* rows some of which have a null stress_avg, the stress reader returns as many records as there are rows with a non-null
\* stress_avg, none of them with a null stress_avg.
C9_LengthIsNonNullCount ==
    (resp.route = "stress" /\ resp.kind = "records" /\ SomeNull)
        => (Len(resp.records) = NonNullCount /\ NoNullRecord)

\* C9 amended: over daily rows some of which have a null stress_avg, the
\* stress reader returns as many records as there are rows with a non-null
\* stress_avg or as the row limit (30 at the endpoint), whichever is
\* smaller, none of them with a null stress_avg.
C9_LengthIsNonNullCountUpToLimit ==
    (resp.route \in StressRoutes /\ resp.kind = "records" /\ SomeNull)
        => (Len(resp.records) = Min(NonNullCount, resp.days) /\ NoNullRecord)

\* the stress endpoint dropped a row without a reading and returned the rest
C9_Witness ==
    /\ resp.route = "stress"
    /\ resp.kind = "records"
    /\ SomeNull
    /\ Len(resp.records) = 1
    /\ Len(StressRows) = 2

C3_PasswordNeverReturned ==
    resp.route = "get_config" =>
        /\ resp.status = 200
        /\ ("credentials" \in DOMAIN resp.body
                /\ "password" \in DOMAIN resp.body["credentials"])
              => resp.body["credentials"]["password"] = ""

\* a GET answered with an empty password while a posted one is stored
C3_Witness ==
    /\ resp.route = "get_config"
    /\ "credentials" \in DOMAIN cfg
    /\ "password" \in DOMAIN cfg["credentials"]
    /\ cfg["credentials"]["password"] = "s3cret"
    /\ resp.status = 200
    /\ resp.body["credentials"]["password"] = ""
    /\ DOMAIN resp.body = DOMAIN cfg

\* a document as the set of its stored keys with their values
Flat(doc) == UNION {{<<s, k, doc[s][k]>> : k \in DOMAIN doc[s]} : s \in DOMAIN doc}
Paths(doc) == {<<e[1], e[2]>> : e \in Flat(doc)}

Recognized ==
    ({"credentials"} \X CredentialKeys) \cup ({"data"} \X DataKeys)
        \cup ({"garmin"} \X GarminKeys)

\* C7: after a successful POST /api/config the stored keys are those of the
\* previous config with exactly the recognized keys of the payload
\* overwritten: every other stored key keeps its value, no unrecognized
\* payload key is stored, and the cached session no longer exists.
C7_MergeFrame ==
    [][(resp'.route = "post_config" /\ resp'.status = 200)
          => LET sent == {e \in Flat(resp'.payload) : <<e[1], e[2]>> \in Recognized}
                 over == {<<e[1], e[2]>> : e \in sent}
             IN  /\ Flat(cfg') = {e \in Flat(cfg) : <<e[1], e[2]>> \notin over} \cup sent
                 /\ \A e \in Flat(resp'.payload) :
                       (<<e[1], e[2]>> \notin Recognized /\ <<e[1], e[2]>> \notin Paths(cfg))
                          => <<e[1], e[2]>> \notin Paths(cfg')
                 /\ ~garthSession']_vars

\* a POST with a recognized and an unrecognized key stored the first only,
\* and removed a session that existed
C7_Witness ==
    /\ resp.route = "post_config"
    /\ resp.status = 200
    /\ resp.hadSession
    /\ ~garthSession
    /\ "credentials" \in DOMAIN resp.payload
    /\ "token" \in DOMAIN resp.payload["credentials"]
    /\ cfg["credentials"]["user"] = "me"
    /\ "token" \notin DOMAIN cfg["credentials"]
    /\ "directories" \in DOMAIN resp.payload
    /\ "directories" \in DOMAIN cfg
    /\ cfg["directories"]["relative_to_home"] = "true"

(***************************************************************************)
(* Properties of the sync invoker.                                         *)
(***************************************************************************)
EndsWith(text, tail) ==
    /\ Len(tail) <= Len(text)
    /\ SubSeq(text, Len(text) - Len(tail) + 1, Len(text)) = tail

\* C4: for every exit code rc of the sync tool, POST /api/update answers
\* with returncode = rc and ok = (rc = 0), with status 200 if rc = 0 and 500
\* otherwise, and the log then ends with the footer exit=rc.
C4_ResultMatchesExit ==
    (resp.route = "update" /\ resp.kind = "result") =>
        /\ resp.result.returncode = cp.returncode
        /\ resp.result.ok = (cp.returncode = 0)
        /\ resp.status = (IF cp.returncode = 0 THEN 200 ELSE 500)
        /\ EndsWith(log, "\nexit=" \o ToString(cp.returncode) \o "\n")

\* the tool exited with 7 and "boom" on stderr: 500, ok false, exit=7 last
C4_Witness ==
    /\ resp.route = "update"
    /\ resp.kind = "result"
    /\ resp.status = 500
    /\ resp.result.returncode = 7
    /\ resp.result.stderr = "boom"
    /\ ~resp.result.ok
    /\ EndsWith(log, "boom\nexit=7\n")

\* C5 as stated: when the sync tool starts and exits with a non-zero code,
\* POST /api/update answers successfully with ok: false; it answers 500 only
\* when the process cannot be started.
C5_NonZeroExitIsNotAnHttpError ==
    /\ (resp.route = "update" /\ resp.kind = "result" /\ cp.returncode # 0)
          => (resp.status = 200 /\ ~resp.result.ok)
    /\ (resp.route = "update" /\ resp.status = 500) => resp.kind = "exception"

\* C5 amended: when the sync tool starts and exits with a non-zero code,
\* POST /api/update answers 500 with the SyncResult carrying ok: false; it
\* answers 500 without a SyncResult when the process cannot be started, and
\* 200 only when the tool exits with 0.
C5_NonZeroExitIs500WithResult ==
    resp.route = "update" =>
        /\ (resp.kind = "result" /\ cp.returncode # 0)
              => (resp.status = 500 /\ ~resp.result.ok /\ resp.result = SyncResult(cp))
        /\ resp.kind = "exception" => (resp.status = 500 /\ resp.result = NoResult)
        /\ resp.status = 200 => (resp.kind = "result" /\ cp.returncode = 0)

\* the tool was killed by a signal: 500 with a SyncResult, ok false
C5_Witness ==
    /\ resp.route = "update"
    /\ resp.kind = "result"
    /\ cp.returncode = -9
    /\ resp.status = 500
    /\ resp.result.returncode = -9
    /\ ~resp.result.ok

IsPrefix(s, t) == Len(s) <= Len(t) /\ SubSeq(t, 1, Len(s)) = s

\* C6: the log only grows under the sync invoker: its content before a
\* step is a prefix of its content after it, and it changes only when an
\* invocation whose process has exited appends its one record: the
\* command-line header, the captured stdout, the captured stderr and the
\* exit=<returncode> footer, in that order.
C6_LogAppendOnly ==
    [][/\ IsPrefix(log, log')
       /\ log' # log => (syncPc = "exited" /\ syncPc' = "idle")
       /\ (syncPc = "exited" /\ syncPc' = "idle") =>
             SubSeq(log', Len(log) + 1, Len(log'))
                = "\n$ " \o CmdLine \o "\n" \o cp.stdout \o cp.stderr
                    \o "\nexit=" \o ToString(cp.returncode) \o "\n"
       /\ syncPc = "running" => log' = log]_vars

\* two invocations have each left their record, the second after the first
C6_Witness ==
    /\ nSyncs = 2
    /\ syncPc = "idle"
    /\ log = "\n$ " \o CmdLine \o "\n" \o "\nexit=-9\n"
               \o "\n$ " \o CmdLine \o "\n" \o "downloading\n" \o "no network" \o "\nexit=1\n"

====
